---- MODULE Spec2Model ----
(***************************************************************************)
(* A model of the earnings-calendar scraper: earnings_calendar.py (time    *)
(* classification, extraction, business-day aggregation, collision-safe    *)
(* writing, enrichment) and data_fetcher.py (the data-provider client).    *)
(*                                                                         *)
(* Strings on which the code does string work (raw times, ticker symbols)  *)
(* are sequences of one-character strings, so that slicing, parsing and    *)
(* upper-casing are computed as the code computes them.  Dates are day     *)
(* ordinals whose weekday is ordinal % 7 with Monday = 0, as               *)
(* datetime.weekday() numbers them.                                        *)
(***************************************************************************)
EXTENDS Integers, Sequences, FiniteSets, TLC

VARIABLES
    time_string,    \* _is_BTO_or_ATC: the argument
    session_out,    \* _is_BTO_or_ATC: the value returned
    classify_pc,    \* "ready" | "returned"
    soup,           \* _find_symbols_and_times: the parsed page
    extracted,      \* _find_symbols_and_times: the list returned
    extract_pc,     \* "ready" | "returned" | "raised"
    now,            \* the wall clock read by datetime.today(): [day, tick]
    n_days,         \* fetch_all_earnings_and_times: argument
    start_day,      \* fetch_all_earnings_and_times: argument
    day,            \* fetch_all_earnings_and_times: the loop variable
    calendar_dict,  \* fetch_all_earnings_and_times: the dict being built
    fetched,        \* history: the offsets fetched, with the key and page of each
    fs,             \* the destination directory: path -> the lines of the file
    n_writes,       \* how many write_to_file calls have returned
    last_write,     \* history: the path and dataset of the last write_to_file call
    written_paths,  \* history: the paths write_to_file has returned
    enrich_out,     \* append_data_to_file: the exception raised ("none" when it
                    \* returned), with the file as it was and the inputs of the call
    pc              \* position of __main__: "fetch" | "write" | "done" | the exception that ended it

vars == <<time_string, session_out, classify_pc, soup, extracted, extract_pc, now, n_days,
          start_day, day, calendar_dict, fetched, fs, n_writes, last_write,
          written_paths, enrich_out, pc>>

classify_vars == <<time_string, session_out, classify_pc>>
extract_vars == <<soup, extracted, extract_pc>>
main_vars == <<now, n_days, start_day, day, calendar_dict, fetched, fs, n_writes,
               last_write, written_paths, enrich_out, pc>>

----------------------------------------------------------------------------
(* Characters and strings                                                  *)

Digits == <<"0", "1", "2", "3", "4", "5", "6", "7", "8", "9">>

IsDigit(c) == \E i \in DOMAIN Digits : Digits[i] = c

DigitVal(c) == (CHOOSE i \in DOMAIN Digits : Digits[i] = c) - 1

LowerLetters == <<"a", "b", "c", "d", "e", "f", "g", "h", "i", "j", "k", "l", "m",
                  "n", "o", "p", "q", "r", "s", "t", "u", "v", "w", "x", "y", "z">>

UpperLetters == <<"A", "B", "C", "D", "E", "F", "G", "H", "I", "J", "K", "L", "M",
                  "N", "O", "P", "Q", "R", "S", "T", "U", "V", "W", "X", "Y", "Z">>

\* str.upper / str.lower on one character
UpperChar(c) ==
    IF \E i \in DOMAIN LowerLetters : LowerLetters[i] = c
    THEN UpperLetters[CHOOSE i \in DOMAIN LowerLetters : LowerLetters[i] = c]
    ELSE c

LowerChar(c) ==
    IF \E i \in DOMAIN UpperLetters : UpperLetters[i] = c
    THEN LowerLetters[CHOOSE i \in DOMAIN UpperLetters : UpperLetters[i] = c]
    ELSE c

\* str.upper
str_upper(s) == [i \in 1..Len(s) |-> UpperChar(s[i])]

\* The regular expression class \s, over the characters used here
IsSpace(c) == c \in {" ", "\t"}

\* Python's s[:-3]: everything but the last three characters
StripLast3(s) == IF Len(s) <= 3 THEN <<>> ELSE SubSeq(s, 1, Len(s) - 3)

----------------------------------------------------------------------------
(* datetime.strptime(s, '%I:%M %p')                                        *)
(*                                                                         *)
(* _strptime compiles the format to the regular expression                 *)
(*   (?P<I>1[0-2]|0[1-9]|[1-9]):(?P<M>[0-5]\d|\d)\s+(?P<p>am|pm)           *)
(* (IGNORECASE), matches it at the start of the string, and raises         *)
(* ValueError when nothing matches or when unconverted data remains after  *)
(* the match.  Positions below are 1-based; a failed match is position 0.  *)

\* \s+(am|pm) from position j: the position after the match, or 0
MatchSpaceAmPm(s, j) ==
    LET n == CHOOSE k \in 0..Len(s) :
                 /\ \A m \in 0..(k - 1) : j + m <= Len(s) /\ IsSpace(s[j + m])
                 /\ (j + k > Len(s) \/ ~IsSpace(s[j + k]))
        a == j + n
    IN  IF /\ n >= 1
           /\ a + 1 <= Len(s)
           /\ LowerChar(s[a]) \in {"a", "p"}
           /\ LowerChar(s[a + 1]) = "m"
        THEN a + 2
        ELSE 0

\* :([0-5]\d|\d)\s+(am|pm) from position i: [end, mlen], end = 0 when no match
MatchFromColon(s, i) ==
    IF ~(i <= Len(s) /\ s[i] = ":") THEN [end |-> 0, mlen |-> 0]
    ELSE LET two == IF /\ i + 2 <= Len(s)
                       /\ s[i + 1] \in {"0", "1", "2", "3", "4", "5"}
                       /\ IsDigit(s[i + 2])
                    THEN MatchSpaceAmPm(s, i + 3) ELSE 0
             one == IF i + 1 <= Len(s) /\ IsDigit(s[i + 1])
                    THEN MatchSpaceAmPm(s, i + 2) ELSE 0
         IN  IF two # 0 THEN [end |-> two, mlen |-> 2]
             ELSE IF one # 0 THEN [end |-> one, mlen |-> 1]
             ELSE [end |-> 0, mlen |-> 0]

\* The alternatives of %I in the order the expression tries them: the length of
\* the hour text, or 0
MatchHour(s) ==
    IF /\ Len(s) >= 2 /\ s[1] = "1" /\ s[2] \in {"0", "1", "2"}
       /\ MatchFromColon(s, 3).end # 0 THEN 2
    ELSE IF /\ Len(s) >= 2 /\ s[1] = "0" /\ IsDigit(s[2]) /\ s[2] # "0"
            /\ MatchFromColon(s, 3).end # 0 THEN 2
    ELSE IF /\ Len(s) >= 1 /\ IsDigit(s[1]) /\ s[1] # "0"
            /\ MatchFromColon(s, 2).end # 0 THEN 1
    ELSE 0

NumVal(s, from, len) ==
    IF len = 1 THEN DigitVal(s[from])
    ELSE 10 * DigitVal(s[from]) + DigitVal(s[from + 1])

\* [ok, hour, minute]: ok = FALSE stands for ValueError
strptime(s) ==
    LET hlen == MatchHour(s)
        rest == MatchFromColon(s, hlen + 1)
        h12 == NumVal(s, 1, hlen)
        pm == LowerChar(s[rest.end - 2]) = "p"
    IN  IF hlen = 0 \/ rest.end # Len(s) + 1
        THEN [ok |-> FALSE, hour |-> 0, minute |-> 0]
        ELSE [ok |-> TRUE,
              hour |-> IF pm THEN (IF h12 # 12 THEN h12 + 12 ELSE h12)
                       ELSE (IF h12 = 12 THEN 0 ELSE h12),
              minute |-> NumVal(s, hlen + 2, rest.mlen)]

----------------------------------------------------------------------------
(* _is_BTO_or_ATC                                                          *)

BMO == <<"B", "M", "O">>
BTO == <<"B", "T", "O">>
ATC == <<"A", "T", "C">>
AMC == <<"A", "M", "C">>
DMH == <<"D", "M", "H">>
NA_TEXT == <<"n", "/", "a">>

\* The hour at which the code stops answering 'BTO' and the hour from which it
\* answers 'ATC'
OpenHour == 10
CloseHour == 16

\* A slip that tests the session codes with AMC and BMO exchanged
Mut_is_BTO_or_ATC_codes(ts) ==
    LET time == strptime(StripLast3(ts))
    IN  IF ~time.ok
        THEN IF ts = BMO THEN ATC
             ELSE IF ts = AMC THEN BTO
             ELSE IF ts = DMH THEN DMH
             ELSE NA_TEXT
        ELSE IF time.hour < OpenHour THEN BTO
             ELSE IF time.hour >= CloseHour THEN ATC
             ELSE DMH

\* A slip that compares the 12-hour field and not the 24-hour hour
Mut_is_BTO_or_ATC_hour(ts) ==
    LET time == strptime(StripLast3(ts))
        h12 == IF time.hour > 12 THEN time.hour - 12 ELSE time.hour
    IN  IF ~time.ok
        THEN IF ts = BMO THEN BTO
             ELSE IF ts = AMC THEN ATC
             ELSE IF ts = DMH THEN DMH
             ELSE NA_TEXT
        ELSE IF h12 < OpenHour THEN BTO
             ELSE IF h12 >= CloseHour THEN ATC
             ELSE DMH

_is_BTO_or_ATC(ts) ==
    LET time == strptime(StripLast3(ts))
    IN  IF ~time.ok
        THEN IF ts = BMO THEN BTO
             ELSE IF ts = AMC THEN ATC
             ELSE IF ts = DMH THEN DMH
             ELSE NA_TEXT
        ELSE IF time.hour < OpenHour THEN BTO
             ELSE IF time.hour >= CloseHour THEN ATC
             ELSE IF time.hour >= OpenHour /\ time.hour < CloseHour THEN DMH
             ELSE NA_TEXT

----------------------------------------------------------------------------
(* Raw time texts given to _is_BTO_or_ATC                                  *)

ClockHours == 1..12

HourText(h) == IF h < 10 THEN <<Digits[h + 1]>> ELSE <<"1", Digits[h - 9]>>

MinuteTexts == {<<"0", "0">>, <<"3", "0">>, <<"0", "5">>, <<"5", "9">>}

AM == <<"A", "M">>
PM == <<"P", "M">>

\* Timezone abbreviations of two and of three characters
TzTexts == {<<"E", "T">>, <<"C", "T">>, <<"E", "S", "T">>, <<"P", "D", "T">>}

\* "H:MM AM" / "H:MM PM"
ClockText(h, m, p) == HourText(h) \o <<":">> \o m \o <<" ">> \o p

\* "H:MM AM ET": the clock time, a space, the timezone
RawTimeText(h, m, p, tz) == ClockText(h, m, p) \o <<" ">> \o tz

ClockTzTimes ==
    {RawTimeText(h, m, p, tz) : h \in ClockHours, m \in MinuteTexts,
                                p \in {AM, PM}, tz \in TzTexts}

\* Texts that are not a clock time with a timezone: the session codes, the
\* sentinels, and near misses of the clock form
OtherTimes ==
    {BMO, AMC, DMH, NA_TEXT, <<>>, <<"T", "B", "D">>, <<"b", "m", "o">>,
     <<"A", "M", "C", " ">>, BMO \o <<" ", "E", "T">>,
     <<"7", ":", "3", "0", " ", "A", "M">>,
     <<"7", ":", "3", "0", " ", "A", "M", "E", "T">>,
     <<"7", ":", "3", "0", "A", "M", " ", "E", "T">>,
     <<"0", ":", "3", "0", " ", "A", "M", " ", "E", "T">>,
     <<"1", "3", ":", "0", "0", " ", "P", "M", " ", "E", "T">>,
     <<"0", "7", ":", "3", "0", " ", "a", "m", " ", "E", "T">>,
     <<"7", ":", "5", " ", " ", "p", "m", " ", "E", "T">>,
     <<"7", ":", "6", "0", " ", "A", "M", " ", "E", "T">>,
     <<"1", "6", ":", "0", "0", " ", "E", "T">>}

RawTimes == ClockTzTimes \cup OtherTimes

----------------------------------------------------------------------------
(* Specification of one _is_BTO_or_ATC call on any of the raw times        *)

CallClassify ==
    /\ classify_pc = "ready"
    /\ session_out' = _is_BTO_or_ATC(time_string)
    /\ classify_pc' = "returned"
    /\ UNCHANGED <<time_string, extract_vars, main_vars>>

\* The variables of the other components, at rest
ExtractIdle ==
    /\ soup = [has_calendar |-> TRUE, tickers |-> <<>>, times |-> <<>>]
    /\ extracted = <<>>
    /\ extract_pc = "idle"

MainIdle ==
    /\ now = [day |-> 0, tick |-> 0]
    /\ n_days = 1
    /\ start_day = 0
    /\ day = 0
    /\ calendar_dict = <<>>
    /\ fetched = <<>>
    /\ fs = <<>>
    /\ n_writes = 0
    /\ last_write = <<>>
    /\ written_paths = {}
    /\ enrich_out = <<>>
    /\ pc = "idle"

ClassifyIdle ==
    /\ time_string = <<>>
    /\ session_out = <<>>
    /\ classify_pc = "idle"

InitClassify ==
    /\ time_string \in RawTimes
    /\ session_out = <<>>
    /\ classify_pc = "ready"
    /\ ExtractIdle
    /\ MainIdle

NextClassify == CallClassify

SpecClassify == InitClassify /\ [][NextClassify]_vars

----------------------------------------------------------------------------
(* Claims about _is_BTO_or_ATC                                             *)

\* The 24-hour hour of a 12-hour clock reading
Hour24(h, p) == (h % 12) + (IF p = PM THEN 12 ELSE 0)

\* The session the specification gives an hour of the day
SessionOfHour(h) ==
    IF h < 10 THEN BTO ELSE IF h < 16 THEN DMH ELSE ATC

\* The raw times of the form "H:MM AM/PM <tz>" whose timezone is one of tzs
ClassifiedByHour(tzs) ==
    \A h \in ClockHours, m \in MinuteTexts, p \in {AM, PM}, tz \in tzs :
        time_string = RawTimeText(h, m, p, tz)
            => session_out = SessionOfHour(Hour24(h, p))

\* C1 as claimed: every raw time H:MM AM/PM followed by a timezone suffix of two
\* or of three characters is classified by its 24-hour hour (below 10 BTO, 10 to
\* 15 DMH, 16 and above ATC) and never as n/a.
C1_AsClaimed ==
    classify_pc = "returned" => ClassifiedByHour(TzTexts)

\* C1, amended: every raw time H:MM AM/PM followed by a space and a timezone
\* suffix of exactly two characters (three trailing characters in all, as in
\* "7:30 AM ET") is classified by its 24-hour hour: below 10 BTO, 10 to 15 DMH,
\* 16 and above ATC, never n/a.
C1_TwoCharTz ==
    classify_pc = "returned" => ClassifiedByHour({tz \in TzTexts : Len(tz) = 2})

\* "4:05 PM ET" has been classified as after the close
C1_Witness ==
    /\ classify_pc = "returned"
    /\ time_string = <<"4", ":", "0", "5", " ", "P", "M", " ", "E", "T">>
    /\ session_out = ATC

\* C2: when the clock-time parse of the stripped text fails, the result is BTO
\* exactly for "BMO", ATC exactly for "AMC", DMH exactly for "DMH", and n/a for
\* every other text; when the parse succeeds the session codes play no part.
C2_SessionCodes ==
    classify_pc = "returned" =>
        IF strptime(StripLast3(time_string)).ok
        THEN session_out \in {BTO, DMH, ATC} /\ time_string \notin {BMO, AMC, DMH}
        ELSE /\ (time_string = BMO <=> session_out = BTO)
             /\ (time_string = AMC <=> session_out = ATC)
             /\ (time_string = DMH <=> session_out = DMH)
             /\ (time_string \notin {BMO, AMC, DMH} <=> session_out = NA_TEXT)

\* "AMC" has been classified as after the close, by the session code
C2_Witness ==
    /\ classify_pc = "returned"
    /\ time_string = AMC
    /\ ~strptime(StripLast3(time_string)).ok
    /\ session_out = ATC

----------------------------------------------------------------------------
(* _find_symbols_and_times                                                 *)
(*                                                                         *)
(* A soup is [has_calendar, tickers, times]: whether the page holds the    *)
(* <ul id="epscalendar"> element, and the texts of its class=ticker and    *)
(* class=time elements in document order.  A record returned is the tuple  *)
(* <<ticker, is_bto_or_atc, time>>.                                        *)

Min(a, b) == IF a < b THEN a ELSE b

\* zip of three lists: as long as the shortest
zip3(a, b, c) ==
    [i \in 1..Min(Len(a), Min(Len(b), Len(c))) |-> <<a[i], b[i], c[i]>>]

\* A slip that pairs position by position up to the shorter list and fills the
\* rest with 'n/a'
Mut_find_partial_pairing(sp) ==
    LET tickers == sp.tickers
        times == [i \in 1..Len(tickers) |->
                     IF i <= Len(sp.times) THEN sp.times[i] ELSE NA_TEXT]
        is_bto_or_atc == [i \in 1..Len(times) |-> _is_BTO_or_ATC(times[i])]
    IN  zip3(tickers, is_bto_or_atc, times)

\* A slip that resets the times on a mismatch but classifies the scraped ones
Mut_find_stale_sessions(sp) ==
    LET tickers == sp.tickers
        mismatch == Len(tickers) # Len(sp.times)
        times == IF mismatch THEN [i \in 1..Len(tickers) |-> NA_TEXT] ELSE sp.times
        scraped == [i \in 1..Len(tickers) |->
                       IF i <= Len(sp.times) THEN sp.times[i] ELSE NA_TEXT]
        is_bto_or_atc == [i \in 1..Len(tickers) |-> _is_BTO_or_ATC(scraped[i])]
    IN  zip3(tickers, is_bto_or_atc, times)

_find_symbols_and_times(sp) ==
    LET tickers == sp.tickers
        mismatch == Len(tickers) # Len(sp.times)
        times == IF mismatch THEN [i \in 1..Len(tickers) |-> NA_TEXT] ELSE sp.times
        is_bto_or_atc ==
            IF mismatch THEN [i \in 1..Len(tickers) |-> NA_TEXT]
            ELSE [i \in 1..Len(times) |-> _is_BTO_or_ATC(times[i])]
    IN  zip3(tickers, is_bto_or_atc, times)

\* Ticker and time texts of the pages
AAPL == <<"A", "A", "P", "L">>
aapl == <<"a", "a", "p", "l">>
XYZ == <<"X", "Y", "Z">>
T0730AM == <<"7", ":", "3", "0", " ", "A", "M", " ", "E", "T">>
T1215PM == <<"1", "2", ":", "1", "5", " ", "P", "M", " ", "E", "T">>
T0405PM == <<"4", ":", "0", "5", " ", "P", "M", " ", "E", "T">>
TBD == <<"T", "B", "D">>

PageSymbols == {AAPL, aapl, XYZ}
PageTimes == {T0730AM, T1215PM, T0405PM, AMC, TBD}

\* The longest ticker list and the longest time list of a page
MaxTickers == 2
MaxTimes == 2

SeqsUpTo(S, n) == UNION {[1..k -> S] : k \in 0..n}

Soups ==
    {[has_calendar |-> TRUE, tickers |-> tk, times |-> tm] :
        tk \in SeqsUpTo(PageSymbols, MaxTickers), tm \in SeqsUpTo(PageTimes, MaxTimes)}
    \cup {[has_calendar |-> FALSE, tickers |-> <<>>, times |-> <<>>]}

\* One call.  soup.find returns None when the page has no calendar list, and
\* None.find_all raises AttributeError.
CallExtract ==
    /\ extract_pc = "ready"
    /\ IF soup.has_calendar
       THEN /\ extracted' = _find_symbols_and_times(soup)
            /\ extract_pc' = "returned"
       ELSE /\ extracted' = extracted
            /\ extract_pc' = "AttributeError"
    /\ UNCHANGED <<soup, classify_vars, main_vars>>

InitExtract ==
    /\ soup \in Soups
    /\ extracted = <<>>
    /\ extract_pc = "ready"
    /\ ClassifyIdle
    /\ MainIdle

NextExtract == CallExtract

SpecExtract == InitExtract /\ [][NextExtract]_vars

\* C3: the list returned has one record per ticker element, in the document
\* order of the tickers; unequal counts of tickers and times give every record
\* the raw time 'n/a', equal counts pair the i-th ticker with the i-th time.
C3_OnePerTicker ==
    extract_pc = "returned" =>
        /\ Len(extracted) = Len(soup.tickers)
        /\ \A i \in 1..Len(extracted) :
              /\ extracted[i][1] = soup.tickers[i]
              /\ extracted[i][3] = IF Len(soup.tickers) = Len(soup.times)
                                   THEN soup.times[i] ELSE NA_TEXT

\* Two tickers and one time: two records, both with 'n/a'
C3_Witness ==
    /\ extract_pc = "returned"
    /\ Len(soup.tickers) = 2
    /\ Len(soup.times) = 1
    /\ Len(extracted) = 2
    /\ extracted[1][3] = NA_TEXT
    /\ extracted[2][3] = NA_TEXT

----------------------------------------------------------------------------
(* Dates.  A datetime is [day, tick]: the day ordinal and the time of day  *)
(* as the count of clock readings of the run (the microseconds of          *)
(* datetime.today() differ from one reading to the next).  Day 0 is        *)
(* Monday 2 July 2018; the runs modelled stay within that month.           *)

\* datetime.weekday(): Monday is 0, Sunday is 6
weekday(d) == d % 7

\* other + BDay(n) for n >= 0, as pandas' BusinessDay.apply computes it; the
\* time of day is kept
BDayApply(n, other) ==
    LET wday == weekday(other.day)
        weeks == n \div 5
        n1 == IF n <= 0 /\ wday > 4 THEN n + 1 ELSE n
        n2 == n1 - 5 * weeks
        days == IF n2 = 0 /\ wday > 4 THEN 4 - wday
                ELSE IF wday > 4 THEN (7 - wday) + (n2 - 1)
                ELSE IF wday + n2 <= 4 THEN n2
                ELSE n2 + 2
    IN  [day |-> other.day + 7 * weeks + days, tick |-> other.tick]

\* The order of datetimes
DateLess(a, b) == a.day < b.day \/ (a.day = b.day /\ a.tick < b.tick)

TwoDigits(n) == <<Digits[(n \div 10) + 1], Digits[(n % 10) + 1]>>

\* strftime('%Y%m%d'): the calendar date, without the time of day
FormatYmd(d) == <<"2", "0", "1", "8", "0", "7">> \o TwoDigits(d.day + 2)

WeekdayNames == <<<<"M", "o", "n">>, <<"T", "u", "e">>, <<"W", "e", "d">>,
                  <<"T", "h", "u">>, <<"F", "r", "i">>, <<"S", "a", "t">>,
                  <<"S", "u", "n">>>>

\* strftime('%a, %m/%d/%Y'): the weekday name and the calendar date
FormatADate(d) ==
    WeekdayNames[weekday(d.day) + 1] \o <<",", " ", "0", "7", "/">>
        \o TwoDigits(d.day + 2) \o <<"/", "2", "0", "1", "8">>

----------------------------------------------------------------------------
(* fetch_all_earnings_and_times                                            *)

\* The pages the calendar site answers with
MainSoups ==
    {[has_calendar |-> TRUE, tickers |-> <<AAPL, aapl>>, times |-> <<T0730AM, AMC>>],
     [has_calendar |-> TRUE, tickers |-> <<XYZ, AAPL>>, times |-> <<T0405PM>>],
     [has_calendar |-> TRUE, tickers |-> <<>>, times |-> <<>>],
     [has_calendar |-> FALSE, tickers |-> <<>>, times |-> <<>>]}

\* d[key] = value on a dict
DictSet(d, key, value) ==
    [k \in DOMAIN d \cup {key} |-> IF k = key THEN value ELSE d[k]]

\* One iteration of the loop; after the last one the function returns and
\* __main__ goes on to write_to_file.  An exception of requests.get, and the
\* AttributeError of a page without the calendar list, end the run.
FetchDay ==
    /\ pc = "fetch"
    /\ day < n_days + start_day
    /\ \E transport_ok \in BOOLEAN, answer \in MainSoups :
          IF ~transport_ok \/ ~answer.has_calendar
          THEN /\ pc' = IF ~transport_ok THEN "ConnectionError" ELSE "AttributeError"
               /\ UNCHANGED <<now, day, calendar_dict, fetched>>
          ELSE LET date == BDayApply(day, now)
               IN  /\ calendar_dict' =
                          DictSet(calendar_dict, date, _find_symbols_and_times(answer))
                   /\ fetched' = Append(fetched,
                                        [offset |-> day, date |-> date, soup |-> answer])
                   /\ now' = [now EXCEPT !.tick = @ + 1]
                   /\ day' = day + 1
                   /\ pc' = IF day + 1 < n_days + start_day THEN "fetch" ELSE "write"
    /\ UNCHANGED <<n_days, start_day, fs, n_writes, last_write, written_paths,
                   enrich_out, classify_vars, extract_vars>>

----------------------------------------------------------------------------
(* The csv format.  A file is the sequence of its lines, a line the        *)
(* sequence of its characters without the line terminator.                 *)

\* The characters that make csv.writer quote a field (QUOTE_MINIMAL)
NeedsQuote(cell) == \E i \in 1..Len(cell) : cell[i] \in {",", "\"", "\r", "\n"}

\* Every quote character doubled
RECURSIVE DoubleQuotes(_)
DoubleQuotes(cell) ==
    IF cell = <<>> THEN <<>>
    ELSE (IF Head(cell) = "\"" THEN <<"\"", "\"">> ELSE <<Head(cell)>>)
             \o DoubleQuotes(Tail(cell))

csv_field(cell) ==
    IF NeedsQuote(cell) THEN <<"\"">> \o DoubleQuotes(cell) \o <<"\"">> ELSE cell

\* writer.writerow: the fields, quoted where needed, joined by commas
RECURSIVE csv_writerow(_)
csv_writerow(row) ==
    IF row = <<>> THEN <<>>
    ELSE IF Len(row) = 1 THEN csv_field(row[1])
    ELSE csv_field(row[1]) \o <<",">> \o csv_writerow(Tail(row))

\* The reader's automaton from position i: the field being read, the fields
\* read so far, and whether the position is inside a quoted field
RECURSIVE csv_parse(_, _, _, _, _)
csv_parse(line, i, in_quotes, field, fields) ==
    IF i > Len(line) THEN Append(fields, field)
    ELSE IF in_quotes
    THEN IF line[i] = "\""
         THEN IF i + 1 <= Len(line) /\ line[i + 1] = "\""
              THEN csv_parse(line, i + 2, TRUE, Append(field, "\""), fields)
              ELSE csv_parse(line, i + 1, FALSE, field, fields)
         ELSE csv_parse(line, i + 1, TRUE, Append(field, line[i]), fields)
    ELSE IF line[i] = ","
         THEN csv_parse(line, i + 1, FALSE, <<>>, Append(fields, field))
         ELSE IF line[i] = "\"" /\ field = <<>>
         THEN csv_parse(line, i + 1, TRUE, field, fields)
         ELSE csv_parse(line, i + 1, FALSE, Append(field, line[i]), fields)

\* The fields of one line
csv_readrow(line) == csv_parse(line, 1, FALSE, <<>>, <<>>)

----------------------------------------------------------------------------
(* write_to_file                                                           *)
(*                                                                         *)
(* A path in the destination directory is [base, start, end, n]:           *)
(* base_start-end.csv for n = 0 and base_start-end(n).csv for n >= 1.      *)

DefaultBaseName == "earnings_calendar"

CalendarHeader == <<<<"D", "a", "t", "e">>, <<"S", "y", "m", "b", "o", "l">>,
                    <<"B", "T", "O", "/", "A", "T", "C">>, <<"T", "i", "m", "e">>>>

\* A slip that sorts the dates latest first
Mut_sorted_descending(keys) ==
    [i \in 1..Cardinality(keys) |->
        CHOOSE k \in keys : Cardinality({j \in keys : DateLess(k, j)}) = i - 1]

\* sorted(calendar_dict.keys())
sorted(keys) ==
    [i \in 1..Cardinality(keys) |->
        CHOOSE k \in keys : Cardinality({j \in keys : DateLess(j, k)}) = i - 1]

\* A slip that tries the suffix (1) once instead of looping
Mut_free_path_once(fsv, name, file_path, i) ==
    IF file_path \in DOMAIN fsv THEN [name EXCEPT !.n = i] ELSE file_path

\* The while loop: file_path is the candidate, i the next suffix
RECURSIVE free_path(_, _, _, _)
free_path(fsv, name, file_path, i) ==
    IF file_path \in DOMAIN fsv
    THEN free_path(fsv, name, [name EXCEPT !.n = i], i + 1)
    ELSE file_path

\* The lines written for the dates of sorted_dates, in that order
RECURSIVE csv_rows(_, _)
csv_rows(cd, sorted_dates) ==
    IF sorted_dates = <<>> THEN <<>>
    ELSE LET date == Head(sorted_dates)
             str_date == FormatADate(date)
         IN  [i \in 1..Len(cd[date]) |-> csv_writerow(<<str_date>> \o cd[date][i])]
                 \o csv_rows(cd, Tail(sorted_dates))

\* [file_path, fs]: the path returned, and the directory after the call
write_to_file(cd, file_base_name, fsv) ==
    LET sorted_dates == sorted(DOMAIN cd)
        name == [base |-> file_base_name,
                 start |-> FormatYmd(sorted_dates[1]),
                 end |-> FormatYmd(sorted_dates[Len(sorted_dates)]),
                 n |-> 0]
        file_path == free_path(fsv, name, name, 1)
        content == <<csv_writerow(CalendarHeader)>> \o csv_rows(cd, sorted_dates)
    IN  [file_path |-> file_path,
         fs |-> [q \in DOMAIN fsv \cup {file_path} |->
                    IF q = file_path THEN content ELSE fsv[q]]]

\* How many write_to_file calls one run of the model makes on its dataset
MaxWrites == 2

WriteToFile ==
    /\ pc = "write"
    /\ n_writes < MaxWrites
    /\ LET r == write_to_file(calendar_dict, DefaultBaseName, fs)
       IN  /\ fs' = r.fs
           /\ last_write' = <<[file_path |-> r.file_path, dataset |-> calendar_dict]>>
           /\ written_paths' = written_paths \cup {r.file_path}
    /\ n_writes' = n_writes + 1
    /\ UNCHANGED <<now, n_days, start_day, day, calendar_dict, fetched, enrich_out,
                   pc, classify_vars, extract_vars>>

----------------------------------------------------------------------------
(* data_fetcher.CompanyClient                                              *)

\* numpy.nan: the missing value of a DataFrame cell
NAN == <<"NaN">>

\* The names bound at module level once data_fetcher is imported: the imports
\* and the class.  field_list is bound only under the __main__ guard.
ModuleGlobals == {"os", "np", "pd", "pycharts", "CompanyClient"}

\* field_list as the __main__ guard binds it: ['price', 'average_volume_30']
MainFieldList ==
    <<<<"p", "r", "i", "c", "e">>,
      <<"a", "v", "e", "r", "a", "g", "e", "_", "v", "o", "l", "u", "m", "e", "_",
        "3", "0">>>>

Range(f) == {f[i] : i \in DOMAIN f}

\* The dict built from a response: the results of a symbol reported ok, nan for
\* every field of field_list otherwise
data_dict_of(response, field_list) ==
    [symbol \in DOMAIN response |->
        IF response[symbol].status = "ok"
        THEN response[symbol].results
        ELSE [field \in Range(field_list) |-> NAN]]

\* The method with the parameter it was given in place of field_list
Mut_fetch_data_uses_fields(symbol_list, fields, response) ==
    [exc |-> "none", data_dict |-> data_dict_of(response, fields)]

\* fetch_data names field_list, which is neither a parameter nor a local: the
\* lookup goes to the module's globals and raises NameError before get_points
\* is called
fetch_data(symbol_list, fields, response) ==
    IF "field_list" \notin ModuleGlobals
    THEN [exc |-> "NameError", data_dict |-> <<>>]
    ELSE [exc |-> "none", data_dict |-> data_dict_of(response, MainFieldList)]

----------------------------------------------------------------------------
(* append_data_to_file                                                     *)

\* Texts pandas.read_csv reads as a missing value
NaTexts == {<<>>, NA_TEXT, <<"N", "A">>, <<"N", "/", "A">>, <<"n", "a", "n">>,
            <<"N", "a", "N">>, <<"N", "U", "L", "L">>, <<"n", "u", "l", "l">>}

\* pd.read_csv: [columns, rows], the first line as the column names and the
\* other lines as rows, with nan in place of the texts that read as missing
read_csv(file) ==
    [columns |-> csv_readrow(file[1]),
     rows |-> [i \in 1..(Len(file) - 1) |->
                  LET cells == csv_readrow(file[i + 1])
                  IN  [j \in 1..Len(cells) |->
                          IF cells[j] \in NaTexts THEN NAN ELSE cells[j]]]]

\* DataFrame.to_csv(index=False): the column names, then the rows, a missing
\* value written as the empty text
to_csv(df) ==
    <<csv_writerow(df.columns)>>
        \o [i \in 1..Len(df.rows) |->
               csv_writerow([j \in 1..Len(df.rows[i]) |->
                                IF df.rows[i][j] = NAN THEN <<>> ELSE df.rows[i][j]])]

\* earnings_cal_df.merge(data_df, how='left', left_on='Symbol', right_index=True):
\* every row kept, followed by the values data_df holds under exactly its symbol,
\* or by nan
merge(df, data_df, fields) ==
    LET symbol_col == CHOOSE j \in 1..Len(df.columns) : df.columns[j] = CalendarHeader[2]
    IN  [columns |-> df.columns \o fields,
         rows |-> [i \in 1..Len(df.rows) |->
                      df.rows[i] \o
                          [j \in 1..Len(fields) |->
                              IF df.rows[i][symbol_col] \in DOMAIN data_df
                              THEN data_df[df.rows[i][symbol_col]][fields[j]]
                              ELSE NAN]]]

\* [fs, exc, asked]: the directory after the call, the exception raised ("none"
\* when the call returns), and whether get_points was called.
\*   earnings_cal_df  what pd.read_csv(file_name) gives when it can read the file
\*   fault     what the environment refuses, if anything: [at, wrote] with at
\*             "read" (pd.read_csv cannot read the file), "environ"
\*             (YCHARTS_API_KEY is not set), "open" (to_csv cannot open the file
\*             for writing), "write" (to_csv fails after it has opened the file
\*             and written `wrote` lines) or "none"
\*   response  what the provider answers when asked: upper-case symbol ->
\*             [status, results]
append_data_to_file(fsv, file_name, fields, earnings_cal_df, fault, response) ==
    IF fault.at = "read" THEN [fs |-> fsv, exc |-> "IOError", asked |-> FALSE]
    ELSE
    LET symbols == [i \in 1..Len(earnings_cal_df.rows) |-> earnings_cal_df.rows[i][2]]
    IN  IF fault.at = "environ" THEN [fs |-> fsv, exc |-> "KeyError", asked |-> FALSE]
        ELSE IF NAN \in Range(symbols)
        THEN [fs |-> fsv, exc |-> "TypeError", asked |-> FALSE]
        ELSE
        LET symbol_list == [i \in 1..Len(symbols) |-> str_upper(symbols[i])]
            fetch == fetch_data(symbol_list, fields, response)
        IN  IF fetch.exc # "none" THEN [fs |-> fsv, exc |-> fetch.exc, asked |-> FALSE]
            ELSE
            LET lines == to_csv(merge(earnings_cal_df, fetch.data_dict, fields))
            IN  IF fault.at = "open" THEN [fs |-> fsv, exc |-> "IOError", asked |-> TRUE]
                ELSE IF fault.at = "write"
                THEN [fs |-> [fsv EXCEPT ![file_name] = SubSeq(lines, 1, fault.wrote)],
                      exc |-> "IOError", asked |-> TRUE]
                ELSE [fs |-> [fsv EXCEPT ![file_name] = lines], exc |-> "none",
                      asked |-> TRUE]

\* The faults of a call on a file of n_lines lines
Faults(n_lines) ==
    {[at |-> a, wrote |-> 0] : a \in {"none", "read", "environ", "open"}}
    \cup {[at |-> "write", wrote |-> k] : k \in 0..n_lines}

\* The text of a value the provider reports
RealValue == <<"1", "9", "0", ".", "5">>

RealResults == [field \in Range(MainFieldList) |-> RealValue]

\* The answers of the provider for a list of symbols: each symbol reported ok,
\* reported failed, or left out
Responses(symbol_set) ==
    UNION {[known -> {[status |-> "ok", results |-> RealResults],
                      [status |-> "failed", results |-> <<>>]}] :
           known \in SUBSET symbol_set}

\* __main__ enriches the file it has just written.  The history keeps the
\* provider's answer only when the provider was asked.
AppendDataToFile ==
    /\ pc = "write"
    /\ n_writes >= 1
    /\ LET file_name == last_write[1].file_path
           n_lines == Len(fs[file_name])
       IN  \E earnings_cal_df \in {read_csv(fs[file_name])} :
           \E fault \in Faults(n_lines),
              response \in Responses({str_upper(earnings_cal_df.rows[i][2]) :
                                         i \in 1..Len(earnings_cal_df.rows)}) :
              LET r == append_data_to_file(fs, file_name, MainFieldList,
                                           earnings_cal_df, fault, response)
              IN  /\ fs' = r.fs
                  /\ enrich_out' = [exc |-> r.exc, file_name |-> file_name,
                                    before |-> fs[file_name],
                                    usable |-> fault.at = "none",
                                    response |-> IF r.asked THEN response ELSE <<>>]
    /\ pc' = "done"
    /\ UNCHANGED <<now, n_days, start_day, day, calendar_dict, fetched, n_writes,
                   last_write, written_paths, classify_vars, extract_vars>>

----------------------------------------------------------------------------
(* Specification of a run of __main__ in a directory that may hold the     *)
(* files of earlier runs of the same day                                   *)

\* The largest n_days and the largest start_day of a run
MaxDays == 2
MaxStart == 1

\* A file left by an earlier run
OldFile ==
    <<csv_writerow(CalendarHeader),
      csv_writerow(<<FormatADate([day |-> 0, tick |-> 0]), XYZ, BTO, BMO>>)>>

Init ==
    /\ now \in {[day |-> d, tick |-> 0] : d \in 0..6}
    /\ n_days \in 1..MaxDays
    /\ start_day \in 0..MaxStart
    /\ day = start_day
    /\ calendar_dict = <<>>
    /\ fetched = <<>>
    /\ \E old \in SUBSET {0, 1} :
          fs = [q \in {[base |-> DefaultBaseName,
                        start |-> FormatYmd(BDayApply(start_day, now)),
                        end |-> FormatYmd(BDayApply(start_day + n_days - 1, now)),
                        n |-> i] : i \in old} |-> OldFile]
    /\ n_writes = 0
    /\ last_write = <<>>
    /\ written_paths = {}
    /\ enrich_out = [exc |-> "unset", file_name |-> <<>>, before |-> <<>>,
                     usable |-> FALSE, response |-> <<>>]
    /\ pc = "fetch"
    /\ ClassifyIdle
    /\ ExtractIdle

Next == FetchDay \/ WriteToFile \/ AppendDataToFile

Spec == Init /\ [][Next]_vars

----------------------------------------------------------------------------
(* Claims about fetch_all_earnings_and_times                               *)

\* The business day after a business day
NextBusinessDay(d) == IF weekday(d) = 4 THEN d + 3 ELSE d + 1

\* C4 as claimed: whatever the weekday of the run, n_days and start_day, the
\* dataset returned has exactly n_days distinct calendar dates as keys, each a
\* Monday-to-Friday date, strictly increasing with the offset and each the
\* business day after the one before.
C4_AsClaimed ==
    pc \in {"write", "done"} =>
        /\ Cardinality({k.day : k \in DOMAIN calendar_dict}) = n_days
        /\ \A k \in DOMAIN calendar_dict : weekday(k.day) \in 0..4
        /\ \A i \in 1..(Len(fetched) - 1) :
              /\ fetched[i].date.day < fetched[i + 1].date.day
              /\ fetched[i + 1].date.day = NextBusinessDay(fetched[i].date.day)

----------------------------------------------------------------------------
(* Claims about write_to_file                                              *)

\* Re-reading a file: the cells of its header line and of its other lines
HeaderOf(file) == csv_readrow(file[1])
RowsOf(file) == [i \in 1..(Len(file) - 1) |-> csv_readrow(file[i + 1])]

\* The name write_to_file derives from a dataset: its earliest and latest
\* calendar dates
DerivedName(cd) ==
    LET first == CHOOSE k \in DOMAIN cd : \A j \in DOMAIN cd : k.day <= j.day
        last == CHOOSE k \in DOMAIN cd : \A j \in DOMAIN cd : j.day <= k.day
    IN  [base |-> DefaultBaseName, start |-> FormatYmd(first),
         end |-> FormatYmd(last), n |-> 0]

\* C5: every write_to_file call creates exactly one new file and leaves every
\* file that existed before it as it was; the new file is the undecorated
\* derived path when that is free and otherwise the first free one of the
\* suffixes (1), (2), ...
C5_OneNewFile ==
    [][n_writes' # n_writes =>
          LET name == DerivedName(calendar_dict)
              new == DOMAIN fs' \ DOMAIN fs
          IN  /\ Cardinality(new) = 1
              /\ DOMAIN fs \subseteq DOMAIN fs'
              /\ \A q \in DOMAIN fs : fs'[q] = fs[q]
              /\ \A q \in new :
                    /\ [q EXCEPT !.n = 0] = name
                    /\ \A i \in 0..(q.n - 1) : [name EXCEPT !.n = i] \in DOMAIN fs]_vars

\* Two calls with the same dataset in an empty directory: the undecorated file
\* and the file suffixed (1), both holding the dataset
C5_Witness ==
    /\ n_writes = 2
    /\ DOMAIN fs = {DerivedName(calendar_dict), [DerivedName(calendar_dict) EXCEPT !.n = 1]}
    /\ written_paths = DOMAIN fs
    /\ fs[DerivedName(calendar_dict)] = fs[[DerivedName(calendar_dict) EXCEPT !.n = 1]]
    /\ Len(fs[DerivedName(calendar_dict)]) >= 2

\* The records of the keys of K, earliest key first
RECURSIVE ConcatInKeyOrder(_, _)
ConcatInKeyOrder(cd, K) ==
    IF K = {} THEN <<>>
    ELSE LET first == CHOOSE k \in K : \A j \in K : ~DateLess(j, k)
         IN  cd[first] \o ConcatInKeyOrder(cd, K \ {first})

RECURSIVE SumOfLens(_, _)
SumOfLens(cd, K) ==
    IF K = {} THEN 0
    ELSE LET k == CHOOSE j \in K : TRUE
         IN  Len(cd[k]) + SumOfLens(cd, K \ {k})

\* What C6 says of the rows read back from a file written for the dataset cd
RoundTrip(cd, header, rows) ==
    /\ header = CalendarHeader
    /\ Len(rows) = SumOfLens(cd, DOMAIN cd)
    /\ \A i \in 1..Len(rows) :
          /\ Len(rows[i]) = 4
          /\ \E k \in DOMAIN cd : rows[i][1] = FormatADate(k)
    /\ \A i \in 1..Len(rows), j \in 1..Len(rows) :
          i < j => \A ki \in DOMAIN cd, kj \in DOMAIN cd :
                       (rows[i][1] = FormatADate(ki) /\ rows[j][1] = FormatADate(kj))
                           => ki.day <= kj.day
    /\ \A k \in DOMAIN cd :
          LET ofDate == SelectSeq(rows, LAMBDA r : r[1] = FormatADate(k))
              sameDate == {j \in DOMAIN cd : j.day = k.day}
          IN  [i \in 1..Len(ofDate) |-> Tail(ofDate[i])] = ConcatInKeyOrder(cd, sameDate)

\* C6: the file written is the header and one row per (date, announcement) of
\* the dataset, dates ascending; read back, the rows of one date, without the
\* date, are the records the dataset holds for that date, in extraction order,
\* so regrouping the rows by date gives back the dataset.
C6_FileMatchesDataset ==
    (pc = "write" /\ n_writes >= 1) =>
        RoundTrip(last_write[1].dataset, HeaderOf(fs[last_write[1].file_path]),
                  RowsOf(fs[last_write[1].file_path]))

\* A dataset of two dates with two announcements each has been written and
\* reads back as four rows
C6_Witness ==
    /\ pc = "write"
    /\ n_writes >= 1
    /\ Cardinality({k.day : k \in DOMAIN last_write[1].dataset}) = 2
    /\ \A k \in DOMAIN last_write[1].dataset : Len(last_write[1].dataset[k]) = 2
    /\ Len(RowsOf(fs[last_write[1].file_path])) = 4

\* C10: every record of the dataset and every row of every file write_to_file
\* has written carries the session _is_BTO_or_ATC gives the raw time stored
\* beside it, on the aligned branch and on the mismatched-count branch alike.
C10_SessionOfRawTime ==
    /\ \A k \in DOMAIN calendar_dict : \A i \in 1..Len(calendar_dict[k]) :
          calendar_dict[k][i][2] = _is_BTO_or_ATC(calendar_dict[k][i][3])
    /\ \A q \in written_paths : \A i \in 2..Len(fs[q]) :
          csv_readrow(fs[q][i])[3] = _is_BTO_or_ATC(csv_readrow(fs[q][i])[4])

\* A file holds rows of a mismatched page ('n/a', 'n/a') and rows of an aligned
\* page (a clock time and a session code)
C10_Witness ==
    \E q \in written_paths :
        /\ \E i \in 2..Len(fs[q]) :
              csv_readrow(fs[q][i])[4] = NA_TEXT /\ csv_readrow(fs[q][i])[3] = NA_TEXT
        /\ \E i \in 2..Len(fs[q]) :
              csv_readrow(fs[q][i])[4] = T0730AM /\ csv_readrow(fs[q][i])[3] = BTO
        /\ \E i \in 2..Len(fs[q]) :
              csv_readrow(fs[q][i])[4] = AMC /\ csv_readrow(fs[q][i])[3] = ATC

----------------------------------------------------------------------------
(* Claims about append_data_to_file                                        *)

\* What C7 says of the rows of the file after the call, given its rows before
Enriched(before, after, response) ==
    /\ Len(after) = Len(before)
    /\ \A i \in 1..Len(after) :
          LET symbol == str_upper(before[i][2])
              ok == symbol \in DOMAIN response /\ response[symbol].status = "ok"
          IN  /\ SubSeq(after[i], 1, Len(before[i])) = before[i]
              /\ Len(after[i]) = Len(before[i]) + Len(MainFieldList)
              /\ \A j \in 1..Len(MainFieldList) :
                    after[i][Len(before[i]) + j] = IF ok THEN RealValue ELSE <<>>

\* C7 as claimed: with the file readable and writable (and the credential
\* set), the call returns, and the file then holds the rows it held, in order,
\* each followed by one cell per requested field: the values of a symbol the
\* provider reported ok, the missing-value marker otherwise.
C7_AsClaimed ==
    (pc = "done" /\ enrich_out.usable) =>
        /\ enrich_out.exc = "none"
        /\ HeaderOf(fs[enrich_out.file_name]) = CalendarHeader \o MainFieldList
        /\ Enriched(RowsOf(enrich_out.before), RowsOf(fs[enrich_out.file_name]),
                    enrich_out.response)

C9_AsClaimed ==
    /\ \A k \in DOMAIN calendar_dict : \A i \in 1..Len(calendar_dict[k]) :
          calendar_dict[k][i][1] = str_upper(calendar_dict[k][i][1])
    /\ \A q \in written_paths : \A i \in 2..Len(fs[q]) :
          csv_readrow(fs[q][i])[2] = str_upper(csv_readrow(fs[q][i])[2])
    /\ (pc = "done" /\ enrich_out.usable) =>
          /\ enrich_out.exc = "none"
          /\ Enriched(RowsOf(enrich_out.before), RowsOf(fs[enrich_out.file_name]),
                      enrich_out.response)

====
